---------------------------- MODULE Spec2Model ----------------------------
(***************************************************************************)
(* Model of the legislative statistics utilities                           *)
(*   src/src/utils/consensusStats.ts      calculateConsensus, getAffinity, *)
(*                                        getRankings,                     *)
(*                                        calculateDashboardStats          *)
(*   src/src/utils/participationStats.ts  calculateParticipationStats      *)
(*                                                                         *)
(* JavaScript numbers are IEEE-754 binary64.  Counters stay far below 2^53 *)
(* and are exact; the quotients and the percentages are not, so division,  *)
(* multiplication by 100 and Math.round are modelled bit by bit.           *)
(***************************************************************************)
EXTENDS Integers, Sequences, FiniteSets, TLC

VARIABLES
    pc,           \* which function runs, and where it stands
    initiatives,  \* the input sequence of a call that is given it whole
    args,         \* the other arguments of the call
    init,         \* the argument of the current forEach callback
    acc,          \* the local accumulators of the running function
    ret           \* the returned report

vars == <<pc, initiatives, args, init, acc, ret>>

(***************************************************************************)
(* Optional values: undefined is the empty tuple, a present v is <<v>>.    *)
(***************************************************************************)
Undefined == <<>>
Some(v) == <<v>>
IsDef(o) == o # <<>>
Val(o) == o[1]
\* `o || d` on an optional number: undefined and 0 are both falsy
OrElse(o, d) == IF IsDef(o) /\ Val(o) # 0 THEN Val(o) ELSE d

Min(a, b) == IF a < b THEN a ELSE b
Max(a, b) == IF a > b THEN a ELSE b
Abs(a) == IF a < 0 THEN -a ELSE a

(***************************************************************************)
(* IEEE-754 binary64 arithmetic on non-negative numbers.  A number is      *)
(* [z |-> is it zero, e |-> exponent of the leading bit, m |-> the 53      *)
(* significand bits, most significant first], i.e. m[1].m[2]... * 2^e.     *)
(***************************************************************************)
Precision == 53

FZero == [z |-> TRUE, e |-> 0, m |-> <<>>]

Zeros(n) == [i \in 1..n |-> 0]

Reverse(s) == [i \in 1..Len(s) |-> s[Len(s) + 1 - i]]

\* the number whose binary digits, most significant first, are bits
RECURSIVE BitsToNat(_)
BitsToNat(bits) ==
    IF bits = <<>> THEN 0
    ELSE IF Len(bits) = 1 THEN bits[1]
    ELSE LET h == Len(bits) \div 2
             lo == SubSeq(bits, h + 1, Len(bits))
         IN  BitsToNat(SubSeq(bits, 1, h)) * 2^Len(lo) + BitsToNat(lo)

\* the w binary digits of n, most significant first
NatToBits(n, w) == [i \in 1..w |-> (n \div 2^(w - i)) % 2]

\* bits + 1 for bits that are not all ones, most significant first
IncBits(bits) ==
    LET p == CHOOSE i \in 1..Len(bits) :
                 bits[i] = 0 /\ \A j \in (i + 1)..Len(bits) : bits[j] = 1
    IN  [i \in 1..Len(bits) |-> IF i < p THEN bits[i] ELSE IF i = p THEN 1 ELSE 0]

\* round to nearest, ties to even: bits (leading bit 1) at exponent e, with
\* sticky telling whether nonzero digits follow the given ones
RoundBits(bits, sticky, e) ==
    IF Len(bits) <= Precision
    THEN [z |-> FALSE, e |-> e, m |-> bits \o Zeros(Precision - Len(bits))]
    ELSE LET keep == SubSeq(bits, 1, Precision)
             guard == bits[Precision + 1]
             rest == \E i \in (Precision + 2)..Len(bits) : bits[i] = 1
             up == guard = 1 /\ (sticky \/ rest \/ keep[Precision] = 1)
         IN  IF ~up THEN [z |-> FALSE, e |-> e, m |-> keep]
             ELSE IF \A i \in 1..Precision : keep[i] = 1
                  THEN [z |-> FALSE, e |-> e + 1, m |-> <<1>> \o Zeros(Precision - 1)]
                  ELSE [z |-> FALSE, e |-> e, m |-> IncBits(keep)]

\* a and b scaled by powers of two until b <= a < 2b; e is the exponent
RECURSIVE Normalise(_, _, _)
Normalise(a, b, e) ==
    IF a < b THEN Normalise(2 * a, b, e - 1)
    ELSE IF a >= 2 * b THEN Normalise(a, 2 * b, e + 1)
    ELSE <<a, b, e>>

\* n further binary digits of r/b (r < b), and the remainder left
RECURSIVE QuotBits(_, _, _)
QuotBits(r, b, n) ==
    IF n = 0 THEN <<<<>>, r>>
    ELSE IF n = 1
    THEN LET d == 2 * r IN IF d >= b THEN <<<<1>>, d - b>> ELSE <<<<0>>, d>>
    ELSE LET hi == QuotBits(r, b, n \div 2)
             lo == QuotBits(hi[2], b, n - n \div 2)
         IN  <<hi[1] \o lo[1], lo[2]>>

\* `a / b` for integers a >= 0 and b > 0, digit by digit
FDivBits(a, b) ==
    IF a = 0 THEN FZero
    ELSE LET nm == Normalise(a, b, 0)
             q == QuotBits(nm[1] - nm[2], nm[2], Precision)
         IN  RoundBits(<<1>> \o q[1], q[2] # 0, nm[3])

\* the quotients a / b with a <= b <= MemoMax are computed once
MemoMax == 100
FDivMemo == [b \in 1..MemoMax |-> [a \in 0..b |-> FDivBits(a, b)]]

\* `a / b` for integers a >= 0 and b > 0
FDiv(a, b) == IF b <= MemoMax /\ a <= b THEN FDivMemo[b][a] ELSE FDivBits(a, b)

\* the significand is multiplied limb by limb, LimbBits binary digits at a time
LimbBits == 14

\* limbs (least significant first) * k + carry, as limbs again
RECURSIVE MulLimbs(_, _, _)
MulLimbs(limbs, k, carry) ==
    IF limbs = <<>> THEN IF carry = 0 THEN <<>> ELSE <<carry>>
    ELSE LET t == Head(limbs) * k + carry
         IN  <<t % 2^LimbBits>> \o MulLimbs(Tail(limbs), k, t \div 2^LimbBits)

\* the limbs of bits (most significant first), least significant limb first
RECURSIVE ToLimbs(_)
ToLimbs(bits) ==
    IF Len(bits) <= LimbBits THEN <<BitsToNat(bits)>>
    ELSE <<BitsToNat(SubSeq(bits, Len(bits) - LimbBits + 1, Len(bits)))>>
         \o ToLimbs(SubSeq(bits, 1, Len(bits) - LimbBits))

\* the binary digits of limbs, most significant first, leading zeros kept
RECURSIVE FromLimbs(_)
FromLimbs(limbs) ==
    IF limbs = <<>> THEN <<>>
    ELSE FromLimbs(Tail(limbs)) \o NatToBits(Head(limbs), LimbBits)

\* bits without its leading zeros
StripZeros(bits) ==
    IF \A i \in 1..Len(bits) : bits[i] = 0 THEN <<>>
    ELSE LET p == CHOOSE i \in 1..Len(bits) :
                      bits[i] = 1 /\ \A j \in 1..(i - 1) : bits[j] = 0
         IN  SubSeq(bits, p, Len(bits))

\* `x * k` for an integer 0 <= k < 2^LimbBits, exact as a double (100 in the source)
FMul(x, k) ==
    IF x.z \/ k = 0 THEN FZero
    ELSE LET p == StripZeros(FromLimbs(MulLimbs(ToLimbs(x.m), k, 0)))
         IN  RoundBits(p, FALSE, x.e + (Len(p) - Precision))

\* x < y
FLess(x, y) ==
    IF x.z THEN ~y.z
    ELSE IF y.z THEN FALSE
    ELSE IF x.e # y.e THEN x.e < y.e
    ELSE \E i \in 1..Precision :
            /\ x.m[i] < y.m[i]
            /\ \A j \in 1..(i - 1) : x.m[j] = y.m[j]

\* Math.round: the nearest integer, a tie going up
MathRound(x) ==
    IF x.z \/ x.e < -1 THEN 0
    ELSE IF x.e = -1 THEN 1
    ELSE BitsToNat(SubSeq(x.m, 1, x.e + 1))
         + (IF x.e + 2 <= Precision THEN x.m[x.e + 2] ELSE 0)

\* Math.round((a / b) * 100), digit by digit
RoundPctBits(a, b) == MathRound(FMul(FDiv(a, b), 100))

RoundPctMemo == [b \in 1..MemoMax |-> [a \in 0..b |-> RoundPctBits(a, b)]]

\* Math.round((a / b) * 100)
RoundPct(a, b) ==
    IF b <= MemoMax /\ a <= b THEN RoundPctMemo[b][a] ELSE RoundPctBits(a, b)

(***************************************************************************)
(* Initiative records (consensusStats.ts, interface Initiative).  Strings  *)
(* that the code searches with includes() are sequences of characters;     *)
(* an object used as a map is the sequence of its <<key, value>> entries   *)
(* in property order.                                                      *)
(***************************************************************************)
MkVoting(exists, yes, no, result, noVote, missingDeputies) ==
    [exists |-> exists, yes |-> yes, no |-> no, result |-> result,
     noVote |-> noVote, missingDeputies |-> missingDeputies]

MkInitiative(titulo, resultado_tram, autor, voting) ==
    [titulo |-> titulo, resultado_tram |-> resultado_tram, autor |-> autor,
     voting |-> voting]

\* a vote that carries only the yes/no tallies
Tally(exists, yes, no) == MkVoting(exists, yes, no, Undefined, Undefined, Undefined)

(***************************************************************************)
(* calculateConsensus                                                      *)
(***************************************************************************)
NoVoteMetric == [consensusIndex |-> 0, label |-> "Sin Votación", color |-> "#e5e7eb"]

Classify(consensusIndex, no) ==
    IF consensusIndex = 100 /\ no = 0
    THEN [consensusIndex |-> consensusIndex, label |-> "Unanimidad", color |-> "#10B981"]
    ELSE IF consensusIndex >= 80
    THEN [consensusIndex |-> consensusIndex, label |-> "Gran Acuerdo", color |-> "#34D399"]
    ELSE IF consensusIndex <= 55 /\ consensusIndex >= 45
    THEN [consensusIndex |-> consensusIndex, label |-> "Ajustada", color |-> "#F59E0B"]
    ELSE IF consensusIndex < 45
    THEN IF consensusIndex <= 55
         THEN [consensusIndex |-> consensusIndex, label |-> "Ajustada", color |-> "#EF4444"]
         ELSE [consensusIndex |-> consensusIndex, label |-> "División", color |-> "#3B82F6"]
    ELSE [consensusIndex |-> consensusIndex, label |-> "División", color |-> "#FBBF24"]

calculateConsensus_noExistsCheck(initiative) ==
    IF ~IsDef(initiative.voting) THEN NoVoteMetric
    ELSE LET yes == OrElse(Val(initiative.voting).yes, 0)
             no == OrElse(Val(initiative.voting).no, 0)
             totalVotes == yes + no
         IN  IF totalVotes = 0 THEN NoVoteMetric
             ELSE Classify(RoundPct(yes, totalVotes), no)

calculateConsensus(initiative) ==
    IF ~IsDef(initiative.voting) \/ ~Val(initiative.voting).exists THEN NoVoteMetric
    ELSE LET yes == OrElse(Val(initiative.voting).yes, 0)
             no == OrElse(Val(initiative.voting).no, 0)
             totalVotes == yes + no
         IN  IF totalVotes = 0 THEN NoVoteMetric
             ELSE Classify(RoundPct(yes, totalVotes), no)

(***************************************************************************)
(* Specification SpecConsensus: one call of calculateConsensus on every    *)
(* initiative whose tallies are absent or at most MaxVotes.                *)
(***************************************************************************)
MaxVotes == 40

OptVotes == {Undefined} \cup {Some(v) : v \in 0..MaxVotes}

ConsensusInputs ==
    {MkInitiative(1, Undefined, <<>>, Undefined)}
    \cup {MkInitiative(1, Undefined, <<>>, Some(Tally(e, y, n))) :
            e \in BOOLEAN, y \in OptVotes, n \in OptVotes}

InitConsensus ==
    /\ pc = "calculateConsensus"
    /\ init \in ConsensusInputs
    /\ initiatives = <<>>
    /\ args = <<>>
    /\ acc = <<>>
    /\ ret = Undefined

CalculateConsensus ==
    /\ pc = "calculateConsensus"
    /\ ret' = Some(calculateConsensus(init))
    /\ pc' = "done"
    /\ UNCHANGED <<initiatives, args, init, acc>>

NextConsensus == CalculateConsensus

SpecConsensus == InitConsensus /\ [][NextConsensus]_vars

\* the integer nearest to 100 * a / b, a tie going up (b > 0)
NearestPct(a, b) == (200 * a + b) \div (2 * b)

\* the tallies calculateConsensus reads from a vote, a missing one counting 0
YesOf(i) == IF IsDef(Val(i.voting).yes) THEN Val(Val(i.voting).yes) ELSE 0
NoOf(i) == IF IsDef(Val(i.voting).no) THEN Val(Val(i.voting).no) ELSE 0
Voted(i) == IsDef(i.voting) /\ Val(i.voting).exists

\* C1: with voting.exists and yes + no > 0, consensusIndex is
\* round(100 * yes / (yes + no)) and the label and colour follow the priority
\* order Unanimidad (100 and no = 0), Gran Acuerdo (>= 80), Ajustada in the
\* warning colour (45..55), Ajustada in the risk colour (< 45), else División
\* in the caution colour (56..79).
C1_ClassifyByRoundedRatio ==
    (pc = "done" /\ Voted(init) /\ YesOf(init) + NoOf(init) > 0) =>
        LET yes == YesOf(init)
            no == NoOf(init)
            idx == NearestPct(yes, yes + no)
            m == Val(ret)
        IN  /\ m.consensusIndex = idx
            /\ (idx = 100 /\ no = 0) => m.label = "Unanimidad" /\ m.color = "#10B981"
            /\ (~(idx = 100 /\ no = 0) /\ idx >= 80) =>
                   m.label = "Gran Acuerdo" /\ m.color = "#34D399"
            /\ (idx >= 45 /\ idx <= 55) => m.label = "Ajustada" /\ m.color = "#F59E0B"
            /\ idx < 45 => m.label = "Ajustada" /\ m.color = "#EF4444"
            /\ (idx >= 56 /\ idx <= 79) => m.label = "División" /\ m.color = "#FBBF24"

\* C2: consensusIndex is always an integer in 0..100, and it is 0 with the
\* label Sin Votación whenever voting is absent, voting.exists is false or
\* yes + no = 0.
C2_IndexRangeAndNoVote ==
    pc = "done" =>
        /\ Val(ret).consensusIndex \in 0..100
        /\ (~Voted(init) \/ YesOf(init) + NoOf(init) = 0) =>
               Val(ret).consensusIndex = 0 /\ Val(ret).label = "Sin Votación"

\* C2 witnesses: a recorded vote with both tallies missing was classified, and
\* so was a vote whose exists flag is false although it has tallies
C2_Witness ==
    /\ pc = "done"
    /\ IsDef(init.voting)
    /\ ~Val(init.voting).exists
    /\ YesOf(init) = 3 /\ NoOf(init) = 1
    /\ Val(ret).label = "Sin Votación"

(***************************************************************************)
(* getRankings                                                             *)
(***************************************************************************)
\* Body applied to the value of v, which is computed once
Bind(v, Body(_)) == CHOOSE result \in {Body(x) : x \in {v}} : TRUE

\* Array.prototype.filter
Filter(seq, Keep(_)) ==
    LET Kept(s) ==
            LET F[k \in 0..Len(s)] ==
                    IF k = 0 THEN <<>>
                    ELSE IF Keep(s[k]) THEN Append(F[k - 1], s[k]) ELSE F[k - 1]
            IN  F[Len(s)]
    IN  Bind(seq, Kept)

\* x put into the sorted seq in front of the first element it must precede
Insert(sorted, x, Cmp(_, _)) ==
    LET after == {j \in 1..Len(sorted) : Cmp(x, sorted[j]) < 0}
        p == IF after = {} THEN Len(sorted) + 1
             ELSE CHOOSE j \in after : \A l \in after : j <= l
    IN  SubSeq(sorted, 1, p - 1) \o <<x>> \o SubSeq(sorted, p, Len(sorted))

\* Array.prototype.sort with a comparator: stable (ECMAScript 2019)
Sort(seq, Cmp(_, _)) ==
    LET Sorted(s) ==
            LET F[k \in 0..Len(s)] ==
                    IF k = 0 THEN <<>>
                    ELSE LET Put(sorted) == Insert(sorted, s[k], Cmp) IN Bind(F[k - 1], Put)
            IN  F[Len(s)]
    IN  Bind(seq, Sorted)

\* Array.prototype.slice(0, n)
Slice_oneMore(seq, n) == SubSeq(seq, 1, Min(n + 1, Len(seq)))

Slice(seq, n) == SubSeq(seq, 1, Min(n, Len(seq)))

\* { ...i, ...metric }
Detail(i) ==
    LET metric == calculateConsensus(i)
    IN  [titulo |-> i.titulo, resultado_tram |-> i.resultado_tram, autor |-> i.autor,
         voting |-> i.voting, consensusIndex |-> metric.consensusIndex,
         label |-> metric.label, color |-> metric.color]

Details(seq) ==
    LET Each(s) == [k \in 1..Len(s) |-> Detail(s[k])]
    IN  Bind(seq, Each)

ByConsensus(a, b) == b.consensusIndex - a.consensusIndex

ByDistance(a, b) == Abs(a.consensusIndex - 50) - Abs(b.consensusIndex - 50)

ByDistance_signed(a, b) == (a.consensusIndex - 50) - (b.consensusIndex - 50)

getRankings_ascending(inits) ==
    LET details == Details(Filter(inits, Voted))
    IN  [topConsensus |-> Slice(Sort(details, ByDistance_signed), 5),
         topDivisive |-> Slice(Sort(details, ByDistance), 5)]

getRankings(inits) ==
    LET details == Details(Filter(inits, Voted))
    IN  [topConsensus |-> Slice(Sort(details, ByConsensus), 5),
         topDivisive |-> Slice(Sort(details, ByDistance), 5)]

(***************************************************************************)
(* Specification SpecRankings: one call of getRankings on every sequence   *)
(* of at most MaxRanked initiatives drawn from RankingKinds; the title of  *)
(* an initiative is its position in the input.                             *)
(***************************************************************************)
MaxRanked == 6

RankingKinds ==
    { Undefined,                            \* no vote recorded
      Some(Tally(FALSE, Some(1), Some(0))), \* a vote marked as not existing
      Some(Tally(TRUE, Some(1), Some(1))),  \* index 50
      Some(Tally(TRUE, Some(2), Some(3))),  \* index 40
      Some(Tally(TRUE, Some(3), Some(2))) } \* index 60

\* the sequences of length n whose k-th initiative is titled k
Titled(n, Kinds) ==
    {[k \in 1..n |-> MkInitiative(k, Undefined, <<>>, f[k])] : f \in [1..n -> Kinds]}

InitRankings ==
    /\ pc = "getRankings"
    /\ \E n \in 0..MaxRanked : initiatives \in Titled(n, RankingKinds)
    /\ init = Undefined
    /\ args = <<>>
    /\ acc = <<>>
    /\ ret = Undefined

GetRankings ==
    /\ pc = "getRankings"
    /\ ret' = Some(getRankings(initiatives))
    /\ pc' = "done"
    /\ UNCHANGED <<initiatives, args, init, acc>>

NextRankings == GetRankings

SpecRankings == InitRankings /\ [][NextRankings]_vars

\* the positions of the initiatives with voting.exists true
VotedAt == {k \in 1..Len(initiatives) : Voted(initiatives[k])}

IndexAt(k) == calculateConsensus(initiatives[k]).consensusIndex

\* position a comes before position b: smaller key, or equal key and earlier
KeyBefore(ka, a, kb, b) == ka < kb \/ (ka = kb /\ a < b)

\* out is the first 5 of the voted initiatives ordered by Key, ties in input order
FirstFiveBy(out, Key(_)) ==
    /\ Len(out) = Min(5, Cardinality(VotedAt))
    /\ \A j \in 1..Len(out) :
          /\ out[j].titulo \in VotedAt
          /\ out[j] = Detail(initiatives[out[j].titulo])
    /\ \A j \in 1..(Len(out) - 1) :
          KeyBefore(Key(out[j].titulo), out[j].titulo,
                    Key(out[j + 1].titulo), out[j + 1].titulo)
    /\ \A k \in VotedAt \ {out[j].titulo : j \in 1..Len(out)} :
          \A j \in 1..Len(out) :
              KeyBefore(Key(out[j].titulo), out[j].titulo, Key(k), k)

DescendingIndex(k) == -IndexAt(k)
DistanceToHalf(k) == Abs(IndexAt(k) - 50)

\* C3: getRankings considers exactly the initiatives with voting.exists true;
\* topConsensus is the first 5 of them by consensusIndex descending and
\* topDivisive the first 5 by |consensusIndex - 50| ascending, equal keys
\* keeping their order in the input.
C3_RankingsStableTopFive ==
    pc = "done" =>
        /\ FirstFiveBy(Val(ret).topConsensus, DescendingIndex)
        /\ FirstFiveBy(Val(ret).topDivisive, DistanceToHalf)

\* C3 witness: six voted initiatives with tied keys, so that the order of the
\* input decides who is ranked first and who is cut from both lists
C3_Witness ==
    /\ pc = "done"
    /\ Len(initiatives) = 6
    /\ Cardinality(VotedAt) = 6
    /\ IndexAt(1) = 40 /\ IndexAt(2) = 60 /\ IndexAt(3) = 40
    /\ IndexAt(4) = 50 /\ IndexAt(5) = 60 /\ IndexAt(6) = 40
    /\ Val(ret).topConsensus[1].titulo = 2
    /\ Val(ret).topConsensus[5].titulo = 3
    /\ Val(ret).topDivisive[1].titulo = 4
    /\ Val(ret).topDivisive[5].titulo = 5

(***************************************************************************)
(* getAffinity                                                             *)
(***************************************************************************)
\* String.prototype.includes on sequences of characters
Includes(str, sub) ==
    \E off \in 0..(Len(str) - Len(sub)) : \A k \in 1..Len(sub) : str[off + k] = sub[k]

\* map && Object.keys(map).some(k => k.includes(code))
SomeKeyIncludes(map, code) ==
    IsDef(map) /\ \E j \in 1..Len(Val(map)) : Includes(Val(map)[j][1], code)

\* where code voted: "yes", "no", "abs", or "" when no category names it
VoteIn(desglose, code) ==
    IF SomeKeyIncludes(desglose.yes, code) THEN "yes"
    ELSE IF SomeKeyIncludes(desglose.no, code) THEN "no"
    ELSE IF SomeKeyIncludes(desglose.abstention, code) THEN "abs"
    ELSE ""

\* init.voting?.exists && init.voting.result?.desglose
HasDesglose(i) ==
    /\ Voted(i)
    /\ IsDef(Val(i.voting).result)
    /\ IsDef(Val(Val(i.voting).result).desglose)

DesgloseOf(i) == Val(Val(Val(i.voting).result).desglose)

\* the forEach callback of getAffinity
AffinityCallback(a, i, targetCode, referenceCode) ==
    IF ~HasDesglose(i) THEN a
    ELSE LET refVote == VoteIn(DesgloseOf(i), referenceCode)
             targetVote == VoteIn(DesgloseOf(i), targetCode)
         IN  IF refVote # "" /\ targetVote # ""
             THEN [matches |-> a.matches + (IF refVote = targetVote THEN 1 ELSE 0),
                   totalComparisons |-> a.totalComparisons + 1]
             ELSE a

AffinityResult(a) ==
    IF a.totalComparisons > 0 THEN RoundPct(a.matches, a.totalComparisons) ELSE 0

(***************************************************************************)
(* Specification SpecAffinity: getAffinity run callback by callback over   *)
(* an input that is not stored; each callback gets any initiative of       *)
(* AffinityInputs, until MaxCompared initiatives were comparable.          *)
(***************************************************************************)
MaxCompared == 40

GS == <<"G", "S">>
GP == <<"G", "P">>
XGS == <<"X", "G", "S">>

Codes == {GS, GP, <<"G">>}

MkDesglose(yes, no, abstention, no_vote) ==
    [yes |-> yes, no |-> no, abstention |-> abstention, no_vote |-> no_vote]

MkResult(totales, desglose) == [totales |-> totales, desglose |-> desglose]

\* a vote with a breakdown by party and nothing else
Breakdown(exists, desglose) ==
    MkVoting(exists, Some(1), Some(1), Some(MkResult(Undefined, desglose)),
             Undefined, Undefined)

AffinityVotings ==
    { Undefined,
      Some(MkVoting(TRUE, Some(1), Some(1), Undefined, Undefined, Undefined)),
      Some(Breakdown(TRUE, Undefined)),
      Some(Breakdown(FALSE, Some(MkDesglose(Some(<<<<GS, 1>>, <<GP, 1>>>>), Undefined, Undefined, Undefined)))),
      Some(Breakdown(TRUE, Some(MkDesglose(Some(<<<<GS, 1>>, <<GP, 1>>>>), Undefined, Undefined, Undefined)))),
      Some(Breakdown(TRUE, Some(MkDesglose(Some(<<<<GS, 1>>>>), Some(<<<<GP, 1>>>>), Some(<<>>), Undefined)))),
      Some(Breakdown(TRUE, Some(MkDesglose(Some(<<>>), Undefined, Some(<<<<GP, 2>>, <<XGS, 1>>>>), Undefined)))),
      Some(Breakdown(TRUE, Some(MkDesglose(Some(<<<<GS, 1>>>>), Undefined, Undefined, Some(<<<<GP, 1>>>>))))),
      Some(Breakdown(TRUE, Some(MkDesglose(Some(<<<<XGS, 1>>>>), Some(<<<<GS, 1>>, <<GP, 1>>>>), Undefined, Undefined)))),
      Some(Breakdown(TRUE, Some(MkDesglose(Undefined, Some(<<<<GP, 3>>>>), Some(<<<<GS, 1>>, <<GP, 1>>>>), Undefined)))) }

AffinityInputs == {MkInitiative(1, Undefined, <<>>, v) : v \in AffinityVotings}

InitAffinity ==
    /\ pc = "getAffinity"
    /\ initiatives = <<>>
    /\ args \in [targetCode : Codes, referenceCode : Codes]
    /\ init = Undefined
    /\ acc = [matches |-> 0, totalComparisons |-> 0]
    /\ ret = Undefined

AffinityForEach ==
    /\ pc = "getAffinity"
    /\ acc.totalComparisons < MaxCompared
    /\ \E i \in AffinityInputs :
          /\ init' = Some(i)
          /\ acc' = AffinityCallback(acc, i, args.targetCode, args.referenceCode)
    /\ UNCHANGED <<pc, initiatives, args, ret>>

AffinityReturn ==
    /\ pc = "getAffinity"
    /\ ret' = Some(AffinityResult(acc))
    /\ pc' = "done"
    /\ UNCHANGED <<initiatives, args, init, acc>>

NextAffinity == AffinityForEach \/ AffinityReturn

SpecAffinity == InitAffinity /\ [][NextAffinity]_vars

\* the vote the claim determines for code: the first of Yes, No, Abstain with a
\* key that contains code
DeterminedVote(i, code) ==
    LET d == DesgloseOf(i)
        In(map) == IsDef(map) /\ \E j \in 1..Len(Val(map)) : Includes(Val(map)[j][1], code)
    IN  CASE In(d.yes) -> "yes"
          [] ~In(d.yes) /\ In(d.no) -> "no"
          [] ~In(d.yes) /\ ~In(d.no) /\ In(d.abstention) -> "abs"
          [] OTHER -> "none"

Comparable(i) ==
    /\ HasDesglose(i)
    /\ DeterminedVote(i, args.referenceCode) # "none"
    /\ DeterminedVote(i, args.targetCode) # "none"

Matching(i) ==
    /\ Comparable(i)
    /\ DeterminedVote(i, args.referenceCode) = DeterminedVote(i, args.targetCode)

\* C5: every callback counts its initiative toward comparisons exactly when it
\* has an existing vote breakdown and both codes have a determinable vote, and
\* toward matches exactly when the two votes are also equal; the result is
\* round(100 * matches / comparisons), an integer in 0..100, and 0 when
\* comparisons is 0.
C5_AffinityIsRoundedShare ==
    /\ [][(pc = "getAffinity" /\ pc' = "getAffinity") =>
            /\ acc'.totalComparisons =
                  acc.totalComparisons + (IF Comparable(Val(init)') THEN 1 ELSE 0)
            /\ acc'.matches = acc.matches + (IF Matching(Val(init)') THEN 1 ELSE 0)]_vars
    /\ [](pc = "done" =>
            /\ Val(ret) \in 0..100
            /\ Val(ret) = IF acc.totalComparisons = 0 THEN 0
                          ELSE NearestPct(acc.matches, acc.totalComparisons))

\* the counting rule of C5 alone
AffinityCountingRule ==
    [][(pc = "getAffinity" /\ pc' = "getAffinity") =>
            /\ acc'.totalComparisons =
                  acc.totalComparisons + (IF Comparable(Val(init)') THEN 1 ELSE 0)
            /\ acc'.matches = acc.matches + (IF Matching(Val(init)') THEN 1 ELSE 0)]_vars

\* the result of C5 away from the inputs whose exact percentage ends in .5
AffinityResultOffTies ==
    (pc = "done" /\ acc.totalComparisons > 0
       /\ (200 * acc.matches) % (2 * acc.totalComparisons) # acc.totalComparisons) =>
        Val(ret) = NearestPct(acc.matches, acc.totalComparisons)

(***************************************************************************)
(* calculateDashboardStats                                                 *)
(***************************************************************************)
Aprobado == <<"A", "p", "r", "o", "b", "a", "d", "o">>
Convalidado == <<"C", "o", "n", "v", "a", "l", "i", "d", "a", "d", "o">>
Rechazado == <<"R", "e", "c", "h", "a", "z", "a", "d", "o">>
Derogado == <<"D", "e", "r", "o", "g", "a", "d", "o">>
Retirado == <<"R", "e", "t", "i", "r", "a", "d", "o">>
Decaido == <<"D", "e", "c", "a", "i_acute", "d", "o">>
gobierno == <<"g", "o", "b", "i", "e", "r", "n", "o">>

UpperCase == <<"A", "B", "C", "D", "E", "F", "G", "H", "I", "J", "K", "L", "M", "N", "O", "P", "Q", "R", "S", "T", "U", "V", "W", "X", "Y", "Z">>
LowerCase == <<"a", "b", "c", "d", "e", "f", "g", "h", "i", "j", "k", "l", "m", "n", "o", "p", "q", "r", "s", "t", "u", "v", "w", "x", "y", "z">>

\* String.prototype.toLowerCase, letter by letter
ToLowerCase(str) ==
    [k \in 1..Len(str) |->
        IF \E j \in 1..Len(UpperCase) : UpperCase[j] = str[k]
        THEN LowerCase[CHOOSE j \in 1..Len(UpperCase) : UpperCase[j] = str[k]]
        ELSE str[k]]

\* `s || ""` on an optional string
OrEmpty(s) == IF IsDef(s) THEN Val(s) ELSE <<>>

\* the forEach callback of calculateDashboardStats
DashboardCallback(a, i) ==
    LET status == OrEmpty(i.resultado_tram)
        author == OrEmpty(i.autor)
        isSuccess == Includes(status, Aprobado) \/ Includes(status, Convalidado)
        isFailure == ~isSuccess /\ (Includes(status, Rechazado) \/ Includes(status, Derogado))
        isNeutral == ~isSuccess /\ ~isFailure
                     /\ (Includes(status, Retirado) \/ Includes(status, Decaido))
        isFinalized == isSuccess \/ isFailure \/ isNeutral
        isGov == Includes(ToLowerCase(author), gobierno)
        Bump(stats) == [total |-> stats.total + 1,
                        success |-> stats.success + (IF isSuccess THEN 1 ELSE 0)]
    IN  IF ~isFinalized THEN a
        ELSE [finalizedCount |-> a.finalizedCount + 1,
              successCount |-> a.successCount + (IF isSuccess THEN 1 ELSE 0),
              failureCount |-> a.failureCount + (IF isFailure THEN 1 ELSE 0),
              neutralCount |-> a.neutralCount + (IF isNeutral THEN 1 ELSE 0),
              govStats |-> IF isGov THEN Bump(a.govStats) ELSE a.govStats,
              groupStats |-> IF isGov THEN a.groupStats ELSE Bump(a.groupStats)]

\* the rates and the returned DashboardStats
DashboardResult(a) ==
    LET Rate(success, total) == IF total > 0 THEN RoundPct(success, total) ELSE 0
    IN  [globalSuccessRate |-> Rate(a.successCount, a.finalizedCount),
         breakdown |-> [success |-> a.successCount, failure |-> a.failureCount,
                        neutral |-> a.neutralCount],
         authorEfficiency |->
             [gobierno |-> [total |-> a.govStats.total, success |-> a.govStats.success,
                            rate |-> Rate(a.govStats.success, a.govStats.total)],
              groups |-> [total |-> a.groupStats.total, success |-> a.groupStats.success,
                          rate |-> Rate(a.groupStats.success, a.groupStats.total)]]]

(***************************************************************************)
(* Specification SpecDashboard: calculateDashboardStats run callback by    *)
(* callback over an input that is not stored; each callback gets any       *)
(* initiative of DashboardInputs.  The counters are capped: MaxFinalized   *)
(* finalized initiatives, of which MaxNeutral neutral and MaxGov of the    *)
(* government.                                                             *)
(***************************************************************************)
MaxFinalized == 40
MaxNeutral == 1
MaxGov == 1

Statuses ==
    { Undefined,
      Some(<<"a", "p", "r", "o", "b", "a", "d", "o">>),
      Some(Aprobado), Some(Convalidado), Some(Rechazado), Some(Derogado),
      Some(Retirado), Some(Decaido),
      Some(Retirado \o <<" ">> \o Rechazado \o <<" ">> \o Aprobado) }

Authors == {Some(<<"E", "l", " ", "G", "O", "B", "i", "e", "r", "n", "o">>), Some(<<"G", "r", "u", "p", "o">>)}

DashboardInputs == {MkInitiative(1, st, au, Undefined) : st \in Statuses, au \in Authors}

InitDashboard ==
    /\ pc = "calculateDashboardStats"
    /\ initiatives = <<>>
    /\ args = <<>>
    /\ init = Undefined
    /\ acc = [finalizedCount |-> 0, successCount |-> 0, failureCount |-> 0,
              neutralCount |-> 0, govStats |-> [total |-> 0, success |-> 0],
              groupStats |-> [total |-> 0, success |-> 0]]
    /\ ret = Undefined

DashboardForEach ==
    /\ pc = "calculateDashboardStats"
    /\ \E i \in DashboardInputs :
          /\ init' = Some(i)
          /\ acc' = DashboardCallback(acc, i)
    /\ acc'.finalizedCount <= MaxFinalized
    /\ acc'.neutralCount <= MaxNeutral
    /\ acc'.govStats.total <= MaxGov
    /\ UNCHANGED <<pc, initiatives, args, ret>>

DashboardReturn ==
    /\ pc = "calculateDashboardStats"
    /\ ret' = Some(DashboardResult(acc))
    /\ pc' = "done"
    /\ UNCHANGED <<initiatives, args, init, acc>>

NextDashboard == DashboardForEach \/ DashboardReturn

SpecDashboard == InitDashboard /\ [][NextDashboard]_vars

\* the outcome category the claim gives a status: the first match decides
Category(i) ==
    LET status == IF IsDef(i.resultado_tram) THEN Val(i.resultado_tram) ELSE <<>>
    IN  CASE Includes(status, Aprobado) \/ Includes(status, Convalidado) -> "success"
          [] OTHER ->
             CASE Includes(status, Rechazado) \/ Includes(status, Derogado) -> "failure"
               [] OTHER ->
                  CASE Includes(status, Retirado) \/ Includes(status, Decaido) -> "neutral"
                    [] OTHER -> "excluded"

Count(cond) == IF cond THEN 1 ELSE 0

\* every callback counts its initiative in the one category of its status
DashboardCountingRule ==
    [][(pc = "calculateDashboardStats" /\ pc' = "calculateDashboardStats") =>
          LET c == Category(Val(init)')
          IN  /\ acc'.successCount = acc.successCount + Count(c = "success")
              /\ acc'.failureCount = acc.failureCount + Count(c = "failure")
              /\ acc'.neutralCount = acc.neutralCount + Count(c = "neutral")
              /\ acc'.finalizedCount = acc.finalizedCount + Count(c # "excluded")]_vars

\* the sums of the returned report
DashboardSums ==
    pc = "done" =>
        LET r == Val(ret)
        IN  /\ r.breakdown.success + r.breakdown.failure + r.breakdown.neutral
                  = acc.finalizedCount
            /\ acc.finalizedCount
                  = r.authorEfficiency.gobierno.total + r.authorEfficiency.groups.total
            /\ r.authorEfficiency.gobierno.success + r.authorEfficiency.groups.success
                  = r.breakdown.success
            /\ r.breakdown.success = acc.successCount

\* the rates are 0 over a zero denominator
DashboardZeroRates ==
    pc = "done" =>
        LET r == Val(ret)
        IN  /\ acc.finalizedCount = 0 => r.globalSuccessRate = 0
            /\ r.authorEfficiency.gobierno.total = 0 => r.authorEfficiency.gobierno.rate = 0
            /\ r.authorEfficiency.groups.total = 0 => r.authorEfficiency.groups.rate = 0

\* globalSuccessRate away from the inputs whose exact percentage ends in .5
DashboardRateOffTies ==
    (pc = "done" /\ acc.finalizedCount > 0
       /\ (200 * acc.successCount) % (2 * acc.finalizedCount) # acc.finalizedCount) =>
        Val(ret).globalSuccessRate = NearestPct(acc.successCount, acc.finalizedCount)

\* C6: each initiative is counted in at most one outcome category, by the
\* first match on its status, so that success + failure + neutral =
\* finalizedCount = gobierno.total + groups.total and gobierno.success +
\* groups.success = breakdown.success; globalSuccessRate is
\* round(100 * successCount / finalizedCount), and it and each bucket rate are
\* 0 over a zero denominator.
C6_DashboardSumsAndRate ==
    /\ DashboardCountingRule
    /\ [](DashboardSums /\ DashboardZeroRates)
    /\ [](pc = "done" /\ acc.finalizedCount > 0 =>
            Val(ret).globalSuccessRate = NearestPct(acc.successCount, acc.finalizedCount))

(***************************************************************************)
(* calculateParticipationStats                                             *)
(***************************************************************************)
\* Array.prototype.forEach that threads the closure's variables through Op
FoldLeft(Op(_, _), base, seq) ==
    LET Folded(s) ==
            LET F[k \in 0..Len(s)] ==
                    IF k = 0 THEN base
                    ELSE LET Step(previous) == Op(previous, s[k]) IN Bind(F[k - 1], Step)
            IN  F[Len(s)]
    IN  Bind(seq, Folded)

\* obj[key] || dflt on an object kept as its sequence of entries
Lookup(entries, key, dflt) ==
    IF \E j \in 1..Len(entries) : entries[j][1] = key
    THEN entries[CHOOSE j \in 1..Len(entries) : entries[j][1] = key][2]
    ELSE dflt

\* obj[key] = value: an existing property keeps its place, a new one goes last
Assign(entries, key, value) ==
    IF \E j \in 1..Len(entries) : entries[j][1] = key
    THEN LET p == CHOOSE j \in 1..Len(entries) : entries[j][1] = key
         IN  SubSeq(entries, 1, p - 1) \o <<<<key, value>>>>
             \o SubSeq(entries, p + 1, Len(entries))
    ELSE Append(entries, <<key, value>>)

MkTotales(afavor, enContra, abstenciones, presentes, noVotan) ==
    [afavor |-> afavor, enContra |-> enContra, abstenciones |-> abstenciones,
     presentes |-> presentes, noVotan |-> noVotan]

\* init.voting?.exists && init.voting.result?.totales && init.voting.result.desglose
HasTotalesAndDesglose(i) ==
    /\ Voted(i)
    /\ IsDef(Val(i.voting).result)
    /\ IsDef(Val(Val(i.voting).result).totales)
    /\ IsDef(Val(Val(i.voting).result).desglose)

TotalesOf(i) == Val(Val(Val(i.voting).result).totales)

\* the chamber size the source assumes
Seats == 350

NoPartyVotes == [yes |-> 0, no |-> 0, abs |-> 0, no_vote |-> 0]

\* countVotes(category, source)
CountVotes(partyVotes, category, source) ==
    IF ~IsDef(source) THEN partyVotes
    ELSE LET Add(pv, entry) ==
                 LET old == Lookup(pv, entry[1], NoPartyVotes)
                 IN  Assign(pv, entry[1], [old EXCEPT ![category] = @ + entry[2]])
         IN  FoldLeft(Add, partyVotes, Val(source))

\* the tallies of every party of one breakdown, in the order they are first met
PartyVotes(desglose) ==
    CountVotes(CountVotes(CountVotes(CountVotes(<<>>, "yes", desglose.yes),
                                     "no", desglose.no),
                          "abs", desglose.abstention),
               "no_vote", desglose.no_vote)

\* minors.join(', ')
Join(parts) ==
    LET Glue(text, part) == IF text = <<>> THEN part ELSE text \o <<", ">> \o part
    IN  FoldLeft(Glue, <<>>, parts)

\* the minor options of a block, each `${count} <option>`
Minors(votes, maxVote) ==
    (IF votes.yes > 0 /\ votes.yes # maxVote THEN <<<<votes.yes, " Sí">>>> ELSE <<>>)
    \o (IF votes.no > 0 /\ votes.no # maxVote THEN <<<<votes.no, " No">>>> ELSE <<>>)
    \o (IF votes.abs > 0 /\ votes.abs # maxVote THEN <<<<votes.abs, " Abs">>>> ELSE <<>>)
    \o (IF votes.no_vote > 0 /\ votes.no_vote # maxVote
        THEN <<<<votes.no_vote, " No Voto">>>> ELSE <<>>)

\* `Mayoría votó ${...}, pero hubo: ${minors.join(', ')}`
DetailsText(votes, maxVote, minors) ==
    <<"Mayoría votó ",
      IF votes.yes = maxVote THEN "Sí" ELSE IF votes.no = maxVote THEN "No" ELSE "Abs",
      ", pero hubo: ">> \o Join(minors)

\* consensusRatio > 0.8 && consensusRatio < 1
IsSplit_atLeast(maxVote, totalPartyVotes) ==
    LET consensusRatio == FDiv(maxVote, totalPartyVotes)
    IN  ~FLess(consensusRatio, FDiv(8, 10)) /\ FLess(consensusRatio, FDiv(1, 1))

IsSplit(maxVote, totalPartyVotes) ==
    LET consensusRatio == FDiv(maxVote, totalPartyVotes)
    IN  FLess(FDiv(8, 10), consensusRatio) /\ FLess(consensusRatio, FDiv(1, 1))

\* the callback of Object.entries(partyVotes).forEach
BlockCallback(i, brokenBlocks, entry) ==
    LET party == entry[1]
        votes == entry[2]
        totalPartyVotes == votes.yes + votes.no + votes.abs + votes.no_vote
        maxVote == Max(votes.yes, Max(votes.no, votes.abs))
        minors == Minors(votes, maxVote)
    IN  IF totalPartyVotes < 5 THEN brokenBlocks
        ELSE IF IsSplit(maxVote, totalPartyVotes) /\ Len(minors) > 0
        THEN Append(brokenBlocks,
                    [initiative |-> i, party |-> party,
                     details |-> DetailsText(votes, maxVote, minors)])
        ELSE brokenBlocks

\* the skip test of the first forEach callback
Skipped_ignoresExists(i) ==
    ~(/\ IsDef(i.voting)
      /\ IsDef(Val(i.voting).result)
      /\ IsDef(Val(Val(i.voting).result).totales)
      /\ IsDef(Val(Val(i.voting).result).desglose))

Skipped(i) == ~HasTotalesAndDesglose(i)

\* missing > 0 && missing >= margin
Critical_strict(missing, margin) == missing > 0 /\ missing > margin

Critical(missing, margin) == missing > 0 /\ missing >= margin

\* the first forEach callback of calculateParticipationStats
ParticipationCallback(a, i) ==
    IF Skipped(i) THEN a
    ELSE LET totals == TotalesOf(i)
             desglose == DesgloseOf(i)
             votesCast == OrElse(totals.afavor, 0) + OrElse(totals.enContra, 0)
                          + OrElse(totals.abstenciones, 0)
             present == OrElse(totals.presentes, Seats)
             AddNoVote(byParty, entry) ==
                 Assign(byParty, entry[1], Lookup(byParty, entry[1], 0) + entry[2])
             missing == OrElse(totals.noVotan, 0)
             margin == Abs(OrElse(totals.afavor, 0) - OrElse(totals.enContra, 0))
             Block(blocks, entry) == BlockCallback(i, blocks, entry)
         IN  [totalPresent |-> a.totalPresent + present,
              totalVoted |-> a.totalVoted + votesCast,
              totalAbstentions |-> a.totalAbstentions + OrElse(totals.abstenciones, 0),
              noVotesByParty |->
                  IF IsDef(desglose.no_vote)
                  THEN FoldLeft(AddNoVote, a.noVotesByParty, Val(desglose.no_vote))
                  ELSE a.noVotesByParty,
              criticalAbsences |->
                  IF Critical(missing, margin)
                  THEN Append(a.criticalAbsences,
                              [initiative |-> i, margin |-> margin, missing |-> missing])
                  ELSE a.criticalAbsences,
              brokenBlocks |-> FoldLeft(Block, a.brokenBlocks, PartyVotes(desglose))]

\* voting?.noVote || voting?.missingDeputies || []
NoVoteList(i) ==
    IF ~IsDef(i.voting) THEN <<>>
    ELSE IF IsDef(Val(i.voting).noVote) THEN Val(Val(i.voting).noVote)
    ELSE IF IsDef(Val(i.voting).missingDeputies) THEN Val(Val(i.voting).missingDeputies)
    ELSE <<>>

MkDeputy(codParlamentario, apellidosNombre, grupo, formacion) ==
    [codParlamentario |-> codParlamentario, apellidosNombre |-> apellidosNombre,
     grupo |-> grupo, formacion |-> formacion]

mixto == <<"m", "i", "x", "t", "o">>

\* the callback of noVoteList.forEach
DeputyCallback(byDeputy, deputy) ==
    LET id == IF IsDef(deputy.codParlamentario) /\ Val(deputy.codParlamentario) # 0
              THEN <<"index", Val(deputy.codParlamentario)>>
              ELSE <<"name", deputy.apellidosNombre>>
        isMixed == IsDef(deputy.grupo) /\ Val(deputy.grupo) # <<>>
                   /\ Includes(ToLowerCase(Val(deputy.grupo)), mixto)
        fresh == [name |-> deputy.apellidosNombre,
                  party |-> IF isMixed THEN Some(<<"Grupo Mixto">>)
                            ELSE IF IsDef(deputy.formacion) /\ Val(deputy.formacion) # <<>>
                                 THEN deputy.formacion ELSE deputy.grupo,
                  count |-> 0]
        old == Lookup(byDeputy, id, fresh)
    IN  Assign(byDeputy, id, [old EXCEPT !.count = @ + 1])

\* the second forEach callback of calculateParticipationStats
DeputiesCallback(byDeputy, i) == FoldLeft(DeputyCallback, byDeputy, NoVoteList(i))

ByCount(a, b) == b.count - a.count

\* Object.values: the values under the integer keys in ascending order of the
\* key, then the values under the other keys in the order of their creation
OwnValues(entries) ==
    LET IsIndex(e) == e[1][1] = "index"
        IsName(e) == e[1][1] # "index"
        ByKey(a, b) == a[1][2] - b[1][2]
        Values(ordered) == [j \in 1..Len(ordered) |-> ordered[j][2]]
        Ordered(all) == Sort(Filter(all, IsIndex), ByKey) \o Filter(all, IsName)
    IN  Bind(Bind(entries, Ordered), Values)

calculateParticipationStats(inits) ==
    LET a == FoldLeft(ParticipationCallback,
                      [totalPresent |-> 0, totalVoted |-> 0, totalAbstentions |-> 0,
                       noVotesByParty |-> <<>>, criticalAbsences |-> <<>>,
                       brokenBlocks |-> <<>>],
                      inits)
        absenteeismRanking ==
            Slice(Sort([j \in 1..Len(a.noVotesByParty) |->
                           [party |-> a.noVotesByParty[j][1],
                            count |-> a.noVotesByParty[j][2]]],
                       ByCount), 5)
        noVotesByDeputy == FoldLeft(DeputiesCallback, <<>>, inits)
        deputyRanking ==
            Slice(Sort(OwnValues(noVotesByDeputy), ByCount), 10)
        totalSeatsOpportunity == Len(inits) * Seats
    IN  [globalCommitment |->
             IF totalSeatsOpportunity > 0 THEN RoundPct(a.totalVoted, totalSeatsOpportunity)
             ELSE 0,
         totalVoted |-> a.totalVoted,
         totalPossibleVotes |-> totalSeatsOpportunity,
         totalAbstentions |-> a.totalAbstentions,
         totalNoVotes |-> totalSeatsOpportunity - a.totalVoted,
         absenteeismRanking |-> absenteeismRanking,
         deputyRanking |-> deputyRanking,
         criticalAbsences |-> Slice(a.criticalAbsences, 3),
         brokenBlocks |-> Slice(a.brokenBlocks, 3)]

(***************************************************************************)
(* Specification SpecParticipation: one call of calculateParticipationStats*)
(* on every sequence of at most MaxAnalysed initiatives drawn from         *)
(* ParticipationKinds; the title of an initiative is its position.         *)
(***************************************************************************)
MaxAnalysed == 4

VX == <<"V", "X">>
ERC == <<"E", "R", "C">>
SUMAR == <<"S", "U", "M", "A", "R">>

FullVote(exists, totales, desglose) ==
    Some(MkVoting(exists, Some(1), Some(1), Some(MkResult(totales, desglose)),
                  Undefined, Undefined))

\* a vote with neither totals nor breakdown
KindNeither == FullVote(TRUE, Undefined, Undefined)

\* totals only: 10 to 10 with 2 abstentions and one deputy not voting
KindTotalsOnly ==
    FullVote(TRUE, Some(MkTotales(Some(10), Some(10), Some(2), Some(300), Some(1))),
             Undefined)

\* breakdown only: GP splits 9 to 1, two of GS do not vote
KindDesgloseOnly ==
    FullVote(TRUE, Undefined,
             Some(MkDesglose(Some(<<<<GP, 9>>>>), Some(<<<<GP, 1>>>>), Undefined,
                             Some(<<<<GS, 2>>>>))))

\* totals and breakdown of a vote marked as not existing
KindNotExisting ==
    FullVote(FALSE, Some(MkTotales(Some(5), Some(5), Some(1), Undefined, Some(3))),
             Some(MkDesglose(Some(<<<<GS, 9>>>>), Some(<<<<GS, 1>>>>), Undefined,
                             Some(<<<<GP, 1>>>>))))

\* 203 votes cast, a tie nobody missed; GS splits 81 to 19, GP 80 to 20
KindTied ==
    FullVote(TRUE, Some(MkTotales(Some(100), Some(100), Some(3), Undefined, Undefined)),
             Some(MkDesglose(Some(<<<<GS, 81>>, <<GP, 80>>>>),
                             Some(<<<<GS, 19>>, <<GP, 20>>>>), Some(<<>>), Undefined)))

\* a margin of 6 with 6 not voting; GP and GS both split against a majority No
KindMarginMet ==
    FullVote(TRUE, Some(MkTotales(Some(10), Some(4), Some(1), Some(20), Some(6))),
             Some(MkDesglose(Some(<<<<GP, 1>>>>), Some(<<<<GS, 9>>, <<GP, 9>>>>),
                             Some(<<<<GS, 1>>>>), Some(<<<<XGS, 4>>, <<GS, 1>>>>))))

\* a margin of 8 with 7 not voting; GP abstains 9 with one not voting, GS abstains whole
KindMarginMissed ==
    FullVote(TRUE, Some(MkTotales(Some(10), Some(2), Some(9), Some(0), Some(7))),
             Some(MkDesglose(Undefined, Undefined, Some(<<<<GP, 9>>, <<GS, 5>>>>),
                             Some(<<<<GP, 1>>>>))))

\* a tie with one not voting; GS at exactly 4 of 5, VX at 5 of 6, XGS too small
KindTieMissed ==
    FullVote(TRUE, Some(MkTotales(Some(3), Some(3), Undefined, Some(7), Some(1))),
             Some(MkDesglose(Some(<<<<GS, 4>>, <<VX, 5>>, <<XGS, 3>>>>),
                             Some(<<<<GS, 1>>, <<VX, 1>>, <<XGS, 1>>>>), Undefined,
                             Some(<<<<VX, 0>>>>))))

ParticipationKinds ==
    {KindNeither, KindTotalsOnly, KindDesgloseOnly, KindNotExisting,
     KindTied, KindMarginMet, KindMarginMissed, KindTieMissed}

InitParticipation ==
    /\ pc = "calculateParticipationStats"
    /\ \E n \in 0..MaxAnalysed : initiatives \in Titled(n, ParticipationKinds)
    /\ args = <<>>
    /\ init = Undefined
    /\ acc = <<>>
    /\ ret = Undefined

CalculateParticipationStats ==
    /\ pc = "calculateParticipationStats"
    /\ ret' = Some(calculateParticipationStats(initiatives))
    /\ pc' = "done"
    /\ UNCHANGED <<initiatives, args, init, acc>>

NextParticipation == CalculateParticipationStats

SpecParticipation == InitParticipation /\ [][NextParticipation]_vars

\* the sum of F over the positions in S
RECURSIVE SumOver(_, _)
SumOver(S, F) ==
    IF S = {} THEN 0
    ELSE LET k == CHOOSE x \in S : TRUE IN F[k] + SumOver(S \ {k}, F)

\* a number of the totals of initiative k, 0 when the totals or the number miss
TotalAt(k, field) ==
    LET r == Val(initiatives[k].voting).result
    IN  IF IsDef(initiatives[k].voting) /\ IsDef(r) /\ IsDef(Val(r).totales)
           /\ IsDef(Val(Val(r).totales)[field])
        THEN Val(Val(Val(r).totales)[field]) ELSE 0

CastAt(k) == TotalAt(k, "afavor") + TotalAt(k, "enContra") + TotalAt(k, "abstenciones")

\* the count of party in one category of the breakdown of initiative k
TallyAt(k, category, party) ==
    LET r == Val(initiatives[k].voting).result
        map == Val(Val(r).desglose)[category]
    IN  IF IsDef(initiatives[k].voting) /\ IsDef(r) /\ IsDef(Val(r).desglose)
           /\ IsDef(map) /\ \E j \in 1..Len(Val(map)) : Val(map)[j][1] = party
        THEN Val(map)[CHOOSE j \in 1..Len(Val(map)) : Val(map)[j][1] = party][2]
        ELSE 0

\* party has an entry in one category of the breakdown of initiative k
NamedAt(k, category, party) ==
    LET r == Val(initiatives[k].voting).result
        map == Val(Val(r).desglose)[category]
    IN  /\ IsDef(initiatives[k].voting) /\ IsDef(r) /\ IsDef(Val(r).desglose)
        /\ IsDef(map) /\ \E j \in 1..Len(Val(map)) : Val(map)[j][1] = party

Parties == {GS, GP, XGS, VX, ERC, SUMAR}

\* the positions whose vote exists and has both the totals and the breakdown
Qualifying ==
    {k \in 1..Len(initiatives) :
        /\ IsDef(initiatives[k].voting)
        /\ Val(initiatives[k].voting).exists
        /\ IsDef(Val(initiatives[k].voting).result)
        /\ IsDef(Val(Val(initiatives[k].voting).result).totales)
        /\ IsDef(Val(Val(initiatives[k].voting).result).desglose)}

\* the positions that have the totals or the breakdown, at least one of them
HavingEither ==
    {k \in 1..Len(initiatives) :
        /\ IsDef(initiatives[k].voting)
        /\ IsDef(Val(initiatives[k].voting).result)
        /\ \/ IsDef(Val(Val(initiatives[k].voting).result).totales)
           \/ IsDef(Val(Val(initiatives[k].voting).result).desglose)}

\* the report is the one that counts exactly the positions in S
CountsExactly(S) ==
    LET r == Val(ret)
    IN  /\ r.totalVoted = SumOver(S, [k \in S |-> CastAt(k)])
        /\ r.totalAbstentions = SumOver(S, [k \in S |-> TotalAt(k, "abstenciones")])
        /\ \A j \in 1..Len(r.absenteeismRanking) :
              r.absenteeismRanking[j].count =
                  SumOver(S, [k \in S |-> TallyAt(k, "no_vote", r.absenteeismRanking[j].party)])
        /\ \A p \in Parties :
              (\E k \in S : NamedAt(k, "no_vote", p))
              <=> (\E j \in 1..Len(r.absenteeismRanking) : r.absenteeismRanking[j].party = p)
        /\ \A j \in 1..Len(r.criticalAbsences) : r.criticalAbsences[j].initiative.titulo \in S
        /\ \A j \in 1..Len(r.brokenBlocks) : r.brokenBlocks[j].initiative.titulo \in S

\* C7: totalVoted is the sum of favor + against + abstain over the initiatives
\* that are not skipped, totalPossibleVotes and totalNoVotes + totalVoted are
\* 350 times the number of initiatives, and globalCommitment is
\* round(100 * totalVoted / (350 * number of initiatives)), 0 without
\* initiatives.
C7_CommitmentIsRoundedShare ==
    pc = "done" =>
        LET r == Val(ret)
            n == Len(initiatives)
        IN  /\ r.totalVoted = SumOver(Qualifying, [k \in Qualifying |-> CastAt(k)])
            /\ r.totalPossibleVotes = n * 350
            /\ r.totalNoVotes + r.totalVoted = n * 350
            /\ r.globalCommitment = IF n = 0 THEN 0 ELSE NearestPct(r.totalVoted, n * 350)

\* the sums of C7 and globalCommitment away from the exact .5 percentages
ParticipationSumsOffTies ==
    pc = "done" =>
        LET r == Val(ret)
            n == Len(initiatives)
        IN  /\ r.totalVoted = SumOver(Qualifying, [k \in Qualifying |-> CastAt(k)])
            /\ r.totalPossibleVotes = n * 350
            /\ r.totalNoVotes + r.totalVoted = n * 350
            /\ n = 0 => r.globalCommitment = 0
            /\ (n > 0 /\ (200 * r.totalVoted) % (700 * n) # 350 * n) =>
                   r.globalCommitment = NearestPct(r.totalVoted, n * 350)

\* the statement of C8 as the spec words it: an initiative is skipped exactly when
\* it lacks both the totals and the breakdown, and one that has at least one of
\* them contributes, what it lacks counting as zero or empty
C8_SkipsOnlyWhenBothMissing == pc = "done" => CountsExactly(HavingEither)

\* C8: the accumulation pass skips an initiative exactly when its vote does not
\* exist or it lacks the totals or lacks the breakdown; the initiatives with an
\* existing vote and both of them, and only they, contribute to totalVoted,
\* totalAbstentions, the per-party absenteeism sums and the anomaly lists.
C8_SkipsUnlessBothPresent == pc = "done" => CountsExactly(Qualifying)

KindAt(k) == initiatives[k].voting

\* C8 witness: a vote with totals only, one with a breakdown only and one marked
\* as not existing were skipped, and the vote with both was counted
C8_Witness ==
    /\ pc = "done"
    /\ Len(initiatives) = 4
    /\ KindAt(1) = KindTotalsOnly
    /\ KindAt(2) = KindDesgloseOnly
    /\ KindAt(3) = KindMarginMet
    /\ KindAt(4) = KindNotExisting
    /\ Val(ret).totalVoted = 15
    /\ Len(Val(ret).criticalAbsences) = 1

\* the positions whose absences could have reversed the vote
CriticalAt ==
    {k \in Qualifying :
        /\ TotalAt(k, "noVotan") > 0
        /\ TotalAt(k, "noVotan") >= Abs(TotalAt(k, "afavor") - TotalAt(k, "enContra"))}

\* C9: criticalAbsences is the first 3, in dataset order, of the qualifying
\* initiatives with noVoteCount > 0 and noVoteCount >= |favor - against|, each
\* entry carrying that margin and that count.
C9_CriticalAbsencesFirstThree ==
    pc = "done" =>
        LET out == Val(ret).criticalAbsences
            At(j) == out[j].initiative.titulo
        IN  /\ Len(out) = Min(3, Cardinality(CriticalAt))
            /\ \A j \in 1..Len(out) :
                  /\ At(j) \in CriticalAt
                  /\ out[j].initiative = initiatives[At(j)]
                  /\ out[j].margin = Abs(TotalAt(At(j), "afavor") - TotalAt(At(j), "enContra"))
                  /\ out[j].missing = TotalAt(At(j), "noVotan")
            /\ \A j \in 1..(Len(out) - 1) : At(j) < At(j + 1)
            /\ \A k \in CriticalAt \ {At(j) : j \in 1..Len(out)} :
                  \A j \in 1..Len(out) : At(j) < k

\* C9 witness: four critical votes, the first a tie missed by one deputy, the
\* second with its margin exactly met; the fourth is cut
C9_Witness ==
    /\ pc = "done"
    /\ Len(initiatives) = 4
    /\ KindAt(1) = KindTieMissed
    /\ KindAt(2) = KindMarginMet
    /\ Cardinality(CriticalAt) = 4
    /\ Len(Val(ret).criticalAbsences) = 3
    /\ Val(ret).criticalAbsences[1].margin = 0
    /\ Val(ret).criticalAbsences[2].margin = 6
    /\ Val(ret).criticalAbsences[2].missing = 6

\* the tallies of party in initiative k
BlockAt(k, party) ==
    [yes |-> TallyAt(k, "yes", party), no |-> TallyAt(k, "no", party),
     abs |-> TallyAt(k, "abstention", party), no_vote |-> TallyAt(k, "no_vote", party)]

BlockTotal(b) == b.yes + b.no + b.abs + b.no_vote
BlockMax(b) == Max(b.yes, Max(b.no, b.abs))

\* total >= 5 and 0.8 < maxVote / total < 1, in exact arithmetic
Broken(b) ==
    /\ BlockTotal(b) >= 5
    /\ 5 * BlockMax(b) > 4 * BlockTotal(b)
    /\ BlockMax(b) < BlockTotal(b)

BrokenAt == {pr \in Qualifying \X Parties : Broken(BlockAt(pr[1], pr[2]))}

\* the dominant category of a broken block, and its other categories with a
\* nonzero count, each as the pair <<count, label>> the details list
Dominant(b) ==
    CASE b.yes = BlockMax(b) -> "Sí"
      [] b.yes # BlockMax(b) /\ b.no = BlockMax(b) -> "No"
      [] OTHER -> "Abs"

Minorities(b) ==
    LET Others == {c \in {<<b.yes, " Sí", "Sí">>, <<b.no, " No", "No">>,
                          <<b.abs, " Abs", "Abs">>, <<b.no_vote, " No Voto", "No Voto">>} :
                      c[1] > 0 /\ c[3] # Dominant(b)}
    IN  {<<c[1], c[2]>> : c \in Others}

\* the pairs <<count, label>> listed after the header of a details text
Listed(details) ==
    {<<details[4 + 3 * m], details[5 + 3 * m]>> : m \in 0..((Len(details) - 5) \div 3)}

\* C10: a block is recorded as broken exactly when its total over the four
\* categories is at least 5 and 0.8 < maxVote / total < 1; a record names the
\* dominant category and lists every other category with a nonzero count;
\* brokenBlocks is the first 3 records found across the dataset.
C10_BrokenBlocksFirstThree ==
    pc = "done" =>
        LET out == Val(ret).brokenBlocks
            At(j) == out[j].initiative.titulo
        IN  /\ Len(out) = Min(3, Cardinality(BrokenAt))
            /\ \A j \in 1..Len(out) :
                  /\ <<At(j), out[j].party>> \in BrokenAt
                  /\ out[j].initiative = initiatives[At(j)]
                  /\ out[j].details[1] = "Mayoría votó "
                  /\ out[j].details[2] = Dominant(BlockAt(At(j), out[j].party))
                  /\ Len(out[j].details)
                        = 2 + 3 * Cardinality(Minorities(BlockAt(At(j), out[j].party)))
                  /\ Listed(out[j].details) = Minorities(BlockAt(At(j), out[j].party))
            /\ \A j \in 1..Len(out) : \A l \in 1..Len(out) :
                  (j < l) => /\ At(j) <= At(l)
                             /\ <<At(j), out[j].party>> # <<At(l), out[l].party>>
            /\ \A pr \in BrokenAt \ {<<At(j), out[j].party>> : j \in 1..Len(out)} :
                  \A j \in 1..Len(out) : At(j) <= pr[1]

\* C10 witness: a block led by abstention with one absent deputy is recorded,
\* then GS at 81 of 100 while GP at 80 of 100 is not, and a fourth broken block
\* is cut
C10_Witness ==
    /\ pc = "done"
    /\ Len(initiatives) = 3
    /\ KindAt(1) = KindMarginMissed
    /\ KindAt(2) = KindTied
    /\ KindAt(3) = KindMarginMet
    /\ Cardinality(BrokenAt) = 4
    /\ Len(Val(ret).brokenBlocks) = 3
    /\ Val(ret).brokenBlocks[1].party = GP
    /\ Val(ret).brokenBlocks[1].details = <<"Mayoría votó ", "Abs", ", pero hubo: ", 1, " No Voto">>
    /\ Val(ret).brokenBlocks[2].party = GS
    /\ Val(ret).brokenBlocks[2].details = <<"Mayoría votó ", "Sí", ", pero hubo: ", 19, " No">>
    /\ Val(ret).brokenBlocks[3].initiative.titulo = 3

(***************************************************************************)
(* Specification SpecLists: getRankings and calculateParticipationStats    *)
(* called once each, in either order, on every sequence of at most         *)
(* MaxListed initiatives drawn from ListKinds.                             *)
(***************************************************************************)
MaxListed == 6

\* six deputies identified by their codParlamentario
Coded ==
    [n \in 1..6 |-> MkDeputy(Some(n), "Apellidos, Nombre", Some(<<"G", "S">>), Undefined)]

\* five deputies without it, one of them of the mixed group
Named ==
    << MkDeputy(Undefined, "Uno", Some(<<"G", "P">>), Some(<<"P", "P">>)),
       MkDeputy(Undefined, "Dos", Some(<<"G", "P">>), Undefined),
       MkDeputy(Undefined, "Tres", Some(<<"G", " ", "M", "i", "x", "t", "o">>), Some(<<"B", "N", "G">>)),
       MkDeputy(Some(0), "Cuatro", Undefined, Some(<<"V", "O", "X">>)),
       MkDeputy(Undefined, "Cinco", Undefined, Undefined) >>

\* a tie missed by one deputy; GS at 9 of 11; three parties and six deputies absent
KindCoded ==
    Some(MkVoting(TRUE, Some(3), Some(3),
                  Some(MkResult(Some(MkTotales(Some(3), Some(3), Undefined, Undefined, Some(1))),
                                Some(MkDesglose(Some(<<<<GS, 9>>>>), Some(<<<<GS, 1>>>>), Undefined,
                                                Some(<<<<GS, 1>>, <<GP, 2>>, <<XGS, 3>>>>))))),
                  Some(Coded), Some(Named)))

\* a clear vote; GP at 9 of 10 and VX at 6 of 7; four parties and five deputies absent
KindNamed ==
    Some(MkVoting(TRUE, Some(10), Some(2),
                  Some(MkResult(Some(MkTotales(Some(10), Some(2), Some(1), Some(13), Some(0))),
                                Some(MkDesglose(Some(<<<<GP, 9>>, <<VX, 6>>>>), Undefined,
                                                Some(<<<<GP, 1>>>>),
                                                Some(<<<<VX, 1>>, <<ERC, 1>>, <<SUMAR, 2>>,
                                                       <<GS, 1>>>>))))),
                  Undefined, Some(Named)))

ListKinds == {Undefined, KindCoded, KindNamed}

InitLists ==
    /\ pc = "lists"
    /\ \E n \in 0..MaxListed : initiatives \in Titled(n, ListKinds)
    /\ init = Undefined
    /\ args = <<>>
    /\ acc = <<>>
    /\ ret = [rankings |-> Undefined, stats |-> Undefined]

ListRankings ==
    /\ pc = "lists"
    /\ ~IsDef(ret.rankings)
    /\ ret' = [ret EXCEPT !.rankings = Some(getRankings(initiatives))]
    /\ UNCHANGED <<pc, initiatives, args, init, acc>>

ListParticipation ==
    /\ pc = "lists"
    /\ ~IsDef(ret.stats)
    /\ ret' = [ret EXCEPT !.stats = Some(calculateParticipationStats(initiatives))]
    /\ UNCHANGED <<pc, initiatives, args, init, acc>>

NextLists == ListRankings \/ ListParticipation

SpecLists == InitLists /\ [][NextLists]_vars

\* the parties named among the absent of a qualifying initiative
AbsentParties == {p \in Parties : \E k \in Qualifying : NamedAt(k, "no_vote", p)}

\* the deputies listed as not voting, each under the code or else the name that
\* identifies them
AbsentDeputies ==
    UNION {{IF IsDef(d.codParlamentario) /\ Val(d.codParlamentario) # 0
            THEN <<"index", Val(d.codParlamentario)>>
            ELSE <<"name", d.apellidosNombre>> :
               d \in {NoVoteList(initiatives[k])[j] :
                         j \in 1..Len(NoVoteList(initiatives[k]))}} :
           k \in 1..Len(initiatives)}

\* C4: every ranking and anomaly list has length min(N, number of candidates):
\* N = 5 for topConsensus, topDivisive and absenteeismRanking, 3 for
\* criticalAbsences and brokenBlocks, 10 for deputyRanking.
C4_ListsFillTheirWindows ==
    /\ IsDef(ret.rankings) =>
          /\ Len(Val(ret.rankings).topConsensus) = Min(5, Cardinality(VotedAt))
          /\ Len(Val(ret.rankings).topDivisive) = Min(5, Cardinality(VotedAt))
    /\ IsDef(ret.stats) =>
          /\ Len(Val(ret.stats).absenteeismRanking) = Min(5, Cardinality(AbsentParties))
          /\ Len(Val(ret.stats).criticalAbsences) = Min(3, Cardinality(CriticalAt))
          /\ Len(Val(ret.stats).brokenBlocks) = Min(3, Cardinality(BrokenAt))
          /\ Len(Val(ret.stats).deputyRanking) = Min(10, Cardinality(AbsentDeputies))

\* C4 witness: six voted initiatives, four critical absences, more than three
\* broken blocks, six absent parties and eleven absent deputies, every list cut
\* to its window
C4_Witness ==
    /\ IsDef(ret.rankings) /\ IsDef(ret.stats)
    /\ Cardinality(VotedAt) = 6
    /\ Cardinality(CriticalAt) = 4
    /\ Cardinality(BrokenAt) > 3
    /\ Cardinality(AbsentParties) = 6
    /\ Cardinality(AbsentDeputies) = 11
    /\ Len(Val(ret.rankings).topConsensus) = 5
    /\ Len(Val(ret.rankings).topDivisive) = 5
    /\ Len(Val(ret.stats).absenteeismRanking) = 5
    /\ Len(Val(ret.stats).criticalAbsences) = 3
    /\ Len(Val(ret.stats).brokenBlocks) = 3
    /\ Len(Val(ret.stats).deputyRanking) = 10

=============================================================================
